---- MODULE Spec2Model ----
(***************************************************************************)
(* Capture session of capture_stereo.py: main() and the coroutine          *)
(* _a_main(), one action per statement that talks to the outside world     *)
(* (wpctl, ffmpeg, zvbi2raw, v4l2-ctl, the JLIP VCR).  The environment     *)
(* (exit of the child processes, the answers of the VCR, the operator's    *)
(* Ctrl-C while the monitor loop runs) is nondeterministic.                *)
(***************************************************************************)
EXTENDS Integers, Sequences, FiniteSets, TLC

VARIABLES
    pc,              \* position in main() / _a_main()
    timespan,        \* --timespan option
    vbi_device,      \* TRUE iff --vbi-device was given
    timespan_seconds,\* result of timeparse()
    audio_available, \* "unknown" | "yes" | "no": _audio_device_is_available
    tape_inserted,   \* "unknown" | "yes" | "no": answer of the first mode query
    input_returncode,\* change_input_proc.returncode
    log,             \* external commands issued so far, in order
    ffmpeg_proc,     \* "none" | "running" | "exited"
    ffmpeg_status,   \* exit status of ffmpeg once it has exited
    ffmpeg_reaped,   \* the pid has left the process table
    ffmpeg_signalled,\* SIGTERM was delivered to the running ffmpeg
    ffmpeg_closed,   \* asyncio has closed the transport of ffmpeg
    ffmpeg_proc_return, \* value of `await ffmpeg_proc.wait()`
    vbi_proc,        \* "none" | "running" | "exited"
    vbi_status,      \* exit status of zvbi2raw once it has exited
    vbi_closed,      \* asyncio has closed the transport of zvbi2raw
    vbi_signalled,   \* SIGTERM was delivered to the running zvbi2raw
    vbi_proc_return, \* value of `await vbi_proc.wait()`
    vbi_warned,      \* 'vbi2raw did not complete successfully' was logged
    data,            \* vtr_mode of the last sample taken by the loop
    polls,           \* samples taken by the monitor loop
    interrupted,     \* KeyboardInterrupt was caught by the loop
    ret,             \* return value of _a_main
    raised,          \* exception that ended the session, or "none"
    exit_code        \* exit status of the script once pc = "ended"

vars == <<pc, timespan, vbi_device, timespan_seconds, audio_available,
          tape_inserted, input_returncode, log,
          ffmpeg_proc, ffmpeg_status, ffmpeg_reaped, ffmpeg_signalled,
          ffmpeg_closed,
          ffmpeg_proc_return, vbi_proc, vbi_status, vbi_closed,
          vbi_signalled, vbi_proc_return, vbi_warned, data, polls,
          interrupted, ret, raised, exit_code>>

ffVars   == <<ffmpeg_proc, ffmpeg_status, ffmpeg_reaped, ffmpeg_signalled,
               ffmpeg_closed>>
vbiVars  == <<vbi_proc, vbi_status, vbi_closed, vbi_signalled>>
procVars == <<ffVars, vbiVars>>
cfgVars  == <<timespan, vbi_device>>
preVars  == <<timespan_seconds, audio_available, tape_inserted,
               input_returncode>>
tearVars == <<ffmpeg_proc_return, vbi_proc_return, vbi_warned, ret>>
monVars  == <<data, polls, interrupted>>

----------------------------------------------------------------------------
(* Bounds and constants *)

MaxPolls == 2          \* samples the monitor loop may take that read PLAY_FWD

None == -9999          \* Python's None where an int is expected

DEFAULT_TIMESPAN == "372m"

Timespans == {"372m", "90s", "0s", "", "bogus"}

ExitCodes == {0, 1, 255, -15}   \* statuses a child may exit with

CleanCodes == {0, 255}

VTRModes == {"PLAY_FWD", "STOP", "REW"}

----------------------------------------------------------------------------
(* Pure helpers *)

\* pytimeparse.timeparse on the option strings of the model
Timeparse(s) ==
    CASE s = "372m" -> 372 * 60
      [] s = "90s"  -> 90
      [] s = "0s"   -> 0
      [] OTHER      -> None

\* `timespan or DEFAULT_TIMESPAN`
TimespanOrDefault(s) == IF s = "" THEN DEFAULT_TIMESPAN ELSE s

Falsy_noneOnlyZero(x) == x = 0

\* `not timespan_seconds`
Falsy(x) == x = None \/ x = 0

SessionResult_zeroOnly(status) == IF status = 0 THEN 0 ELSE 1

\* lines 185-187 and 201: the value _a_main returns for an ffmpeg status
SessionResult(status) == IF status \in CleanCodes THEN 0 ELSE 1

StillPlaying_notStop(mode) == mode # "STOP"

\* negation of `data.vtr_mode != VTRMode.PLAY_FWD`
StillPlaying(mode) == mode = "PLAY_FWD"

\* psutil.pid_exists(ffmpeg_pid): a zombie still has its pid
PidExists == ffmpeg_proc = "running" \/ (ffmpeg_proc = "exited" /\ ~ffmpeg_reaped)

Count(e) == Cardinality({i \in DOMAIN log : log[i] = e})

Issued(e) == \E i \in DOMAIN log : log[i] = e

\* every occurrence of b in the log comes after some occurrence of a
Before(a, b) ==
    \A j \in DOMAIN log : log[j] = b => \E i \in 1..(j - 1) : log[i] = a

Emit(e) == log' = Append(log, e)

\* an exception leaves main(): click prints it (Abort) or Python prints the
\* traceback; the script exits with status 1
Raise(exc) ==
    /\ pc' = "ended"
    /\ raised' = exc
    /\ exit_code' = 1

Goto(p) == pc' = p /\ UNCHANGED <<raised, exit_code>>

----------------------------------------------------------------------------
Init ==
    /\ pc = "parse"
    /\ timespan \in Timespans
    /\ vbi_device \in BOOLEAN
    /\ timespan_seconds = None
    /\ audio_available = "unknown"
    /\ tape_inserted = "unknown"
    /\ input_returncode = None
    /\ log = <<>>
    /\ ffmpeg_proc = "none"
    /\ ffmpeg_status = None
    /\ ffmpeg_reaped = FALSE
    /\ ffmpeg_signalled = FALSE
    /\ ffmpeg_closed = FALSE
    /\ ffmpeg_proc_return = None
    /\ vbi_proc = "none"
    /\ vbi_status = None
    /\ vbi_closed = FALSE
    /\ vbi_signalled = FALSE
    /\ vbi_proc_return = None
    /\ vbi_warned = FALSE
    /\ data = "none"
    /\ polls = 0
    /\ interrupted = FALSE
    /\ ret = None
    /\ raised = "none"
    /\ exit_code = None

----------------------------------------------------------------------------
(* main(), lines 213-238 *)

\* 216-219
ParseTimespan ==
    /\ pc = "parse"
    /\ timespan_seconds' = Timeparse(TimespanOrDefault(timespan))
    /\ IF Falsy(timespan_seconds')
       THEN Raise("Abort:timespan")
       ELSE Goto("node")
    /\ UNCHANGED <<cfgVars, audio_available, tape_inserted, input_returncode,
                   log, procVars, tearVars, monVars>>

\* 220-223: wpctl status, search for the node id
FindNode ==
    /\ pc = "node"
    /\ Emit("wpctl_status")
    /\ \E found \in BOOLEAN :
         IF found THEN Goto("profile_off") ELSE Raise("Abort:node")
    /\ UNCHANGED <<cfgVars, preVars, procVars, tearVars, monVars>>

\* 224-226: wpctl set-profile <id> 0, check=True
ProfileOff ==
    /\ pc = "profile_off"
    /\ Emit("profile_off")
    /\ \E ok \in BOOLEAN :
         IF ok THEN Goto("probe") ELSE Raise("CalledProcessError")
    /\ UNCHANGED <<cfgVars, preVars, procVars, tearVars, monVars>>

ProbeAudio_ignored ==
    /\ pc = "probe"
    /\ Emit("probe_audio")
    /\ \E busy \in BOOLEAN :
         /\ audio_available' = IF busy THEN "no" ELSE "yes"
         /\ Goto("turn_on")
    /\ UNCHANGED <<cfgVars, timespan_seconds, tape_inserted, input_returncode,
                   procVars, tearVars, monVars>>

\* 227-229 with _audio_device_is_available (28-33): the probe's stderr
\* holds 'Device or resource busy' or not
ProbeAudio ==
    /\ pc = "probe"
    /\ Emit("probe_audio")
    /\ \E busy \in BOOLEAN :
         /\ audio_available' = IF busy THEN "no" ELSE "yes"
         /\ IF busy THEN Raise("Abort:audio") ELSE Goto("turn_on")
    /\ UNCHANGED <<cfgVars, timespan_seconds, tape_inserted, input_returncode,
                   procVars, tearVars, monVars>>

\* 230-232
TurnOn ==
    /\ pc = "turn_on"
    /\ Emit("turn_on")
    /\ \E ok \in BOOLEAN :
         IF ok THEN Goto("tape") ELSE Raise("TransportError")
    /\ UNCHANGED <<cfgVars, preVars, procVars, tearVars, monVars>>

CheckTape_ignored ==
    /\ pc = "tape"
    /\ Emit("get_vtr_mode")
    /\ \E ok \in BOOLEAN, inserted \in BOOLEAN :
         /\ tape_inserted' = IF ~ok THEN "unknown"
                              ELSE IF inserted THEN "yes" ELSE "no"
         /\ IF ~ok THEN Raise("TransportError") ELSE Goto("rewind")
    /\ UNCHANGED <<cfgVars, timespan_seconds, audio_available,
                   input_returncode, procVars, tearVars, monVars>>

\* 233-235
CheckTape ==
    /\ pc = "tape"
    /\ Emit("get_vtr_mode")
    /\ \E ok \in BOOLEAN, inserted \in BOOLEAN :
         /\ tape_inserted' = IF ~ok THEN "unknown"
                              ELSE IF inserted THEN "yes" ELSE "no"
         /\ IF ~ok THEN Raise("TransportError")
            ELSE IF ~inserted THEN Raise("Abort:tape")
            ELSE Goto("rewind")
    /\ UNCHANGED <<cfgVars, timespan_seconds, audio_available,
                   input_returncode, procVars, tearVars, monVars>>

\* 236-238
RewindWait ==
    /\ pc = "rewind"
    /\ Emit("rewind_wait")
    /\ \E ok \in BOOLEAN :
         IF ok THEN Goto("spawn_ffmpeg") ELSE Raise("TransportError")
    /\ UNCHANGED <<cfgVars, preVars, procVars, tearVars, monVars>>

----------------------------------------------------------------------------
(* _a_main(), lines 74-201 *)

SpawnFfmpeg_swallowed ==
    /\ pc = "spawn_ffmpeg"
    /\ Emit("exec_ffmpeg")
    /\ \E ok \in BOOLEAN :
         /\ ffmpeg_proc' = IF ok THEN "running" ELSE ffmpeg_proc
         /\ Goto(IF vbi_device THEN "remove_vbi" ELSE "settle")
    /\ UNCHANGED <<cfgVars, preVars, ffmpeg_status, ffmpeg_reaped,
                   ffmpeg_signalled, ffmpeg_closed, vbiVars, tearVars,
                   monVars>>

\* 81-120; line 122 chooses the next statement
SpawnFfmpeg ==
    /\ pc = "spawn_ffmpeg"
    /\ Emit("exec_ffmpeg")
    /\ \E ok \in BOOLEAN :
         IF ok
         THEN /\ ffmpeg_proc' = "running"
              /\ Goto(IF vbi_device THEN "remove_vbi" ELSE "settle")
         ELSE /\ Raise("SpawnError:ffmpeg")
              /\ UNCHANGED ffmpeg_proc
    /\ UNCHANGED <<cfgVars, preVars, ffmpeg_status, ffmpeg_reaped,
                   ffmpeg_signalled, ffmpeg_closed, vbiVars, tearVars,
                   monVars>>

\* 123-127: os.remove(output_vbi), FileNotFoundError ignored
RemoveVbi ==
    /\ pc = "remove_vbi"
    /\ Emit("remove_vbi")
    /\ Goto("spawn_vbi")
    /\ UNCHANGED <<cfgVars, preVars, procVars, tearVars, monVars>>

\* 128-139
SpawnVbi ==
    /\ pc = "spawn_vbi"
    /\ Emit("exec_zvbi2raw")
    /\ \E ok \in BOOLEAN :
         IF ok
         THEN /\ vbi_proc' = "running"
              /\ Goto("settle")
         ELSE /\ Raise("SpawnError:zvbi2raw")
              /\ UNCHANGED vbi_proc
    /\ UNCHANGED <<cfgVars, preVars, ffVars, vbi_status, vbi_closed,
                   vbi_signalled, tearVars, monVars>>

\* 142: await _a_debug_sleep(2)
Settle ==
    /\ pc = "settle"
    /\ Emit("sleep")
    /\ Goto("input")
    /\ UNCHANGED <<cfgVars, preVars, procVars, tearVars, monVars>>

InputSelect_unchecked ==
    /\ pc = "input"
    /\ Emit("exec_v4l2_ctl")
    /\ \E ok \in BOOLEAN, returncode \in {0, 1} :
         /\ input_returncode' = IF ok THEN returncode ELSE None
         /\ IF ~ok THEN Raise("SpawnError:v4l2-ctl")
            ELSE Goto("input_settle")
    /\ UNCHANGED <<cfgVars, timespan_seconds, audio_available, tape_inserted,
                   procVars, tearVars, monVars>>

\* 143-156: v4l2-ctl -i <input>, wait, check the return code
InputSelect ==
    /\ pc = "input"
    /\ Emit("exec_v4l2_ctl")
    /\ \E ok \in BOOLEAN, returncode \in {0, 1} :
         /\ input_returncode' = IF ok THEN returncode ELSE None
         /\ IF ~ok THEN Raise("SpawnError:v4l2-ctl")
            ELSE IF returncode # 0 THEN Raise("Abort:input")
            ELSE Goto("input_settle")
    /\ UNCHANGED <<cfgVars, timespan_seconds, audio_available, tape_inserted,
                   procVars, tearVars, monVars>>

\* 157: await _a_debug_sleep(0.25)
InputSettle ==
    /\ pc = "input_settle"
    /\ Emit("sleep")
    /\ Goto("reset_counter")
    /\ UNCHANGED <<cfgVars, preVars, procVars, tearVars, monVars>>

ResetCounter_noSettle ==
    /\ pc = "reset_counter"
    /\ Emit("reset_counter")
    /\ \E ok \in BOOLEAN :
         IF ok THEN Goto("play") ELSE Raise("TransportError")
    /\ UNCHANGED <<cfgVars, preVars, procVars, tearVars, monVars>>

\* 158-159
ResetCounter ==
    /\ pc = "reset_counter"
    /\ Emit("reset_counter")
    /\ \E ok \in BOOLEAN :
         IF ok THEN Goto("cue_settle") ELSE Raise("TransportError")
    /\ UNCHANGED <<cfgVars, preVars, procVars, tearVars, monVars>>

\* 160: await _a_debug_sleep(1)
CueSettle ==
    /\ pc = "cue_settle"
    /\ Emit("sleep")
    /\ Goto("play")
    /\ UNCHANGED <<cfgVars, preVars, procVars, tearVars, monVars>>

\* 161-162
Play ==
    /\ pc = "play"
    /\ Emit("play")
    /\ \E ok \in BOOLEAN :
         IF ok THEN Goto("framerate") ELSE Raise("TransportError")
    /\ UNCHANGED <<cfgVars, preVars, procVars, tearVars, monVars>>

\* 163-164: the sample that is only read for its framerate
QueryFramerate ==
    /\ pc = "framerate"
    /\ Emit("get_vtr_mode")
    /\ \E ok \in BOOLEAN :
         IF ok THEN Goto("mon_check") ELSE Raise("TransportError")
    /\ UNCHANGED <<cfgVars, preVars, procVars, tearVars, monVars>>

----------------------------------------------------------------------------
(* Monitor loop, lines 165-180 *)

MonitorPcs == {"mon_check", "mon_sample", "mon_decide", "mon_break"}

\* ffmpeg_proc.terminate(), then the statement at `next`: SIGTERM if the
\* child still runs, nothing if it has exited, ProcessLookupError (the
\* exception lines 194-195 catch for zvbi2raw) once the transport is closed
TerminateFfmpeg(next) ==
    /\ Emit("terminate_ffmpeg")
    /\ IF ffmpeg_closed
       THEN /\ Raise("ProcessLookupError")
            /\ UNCHANGED ffmpeg_signalled
       ELSE /\ ffmpeg_signalled' = (ffmpeg_signalled \/ ffmpeg_proc = "running")
            /\ Goto(next)
    /\ UNCHANGED <<ffmpeg_proc, ffmpeg_status, ffmpeg_reaped, ffmpeg_closed>>

MonCheck_sampleAnyway ==
    /\ pc = "mon_check"
    /\ Goto("mon_sample")
    /\ UNCHANGED <<cfgVars, preVars, log, procVars, tearVars, monVars>>

\* 166: while psutil.pid_exists(ffmpeg_pid)
MonCheck ==
    /\ pc = "mon_check"
    /\ Goto(IF PidExists THEN "mon_sample" ELSE "wait_ffmpeg")
    /\ UNCHANGED <<cfgVars, preVars, log, procVars, tearVars, monVars>>

\* 167: data = vcr.get_vtr_mode(fast=True).  The tape is finite: the VCR
\* reports PLAY_FWD to at most MaxPolls samples.
MonSample ==
    /\ pc = "mon_sample"
    /\ Emit("poll")
    /\ \E ok \in BOOLEAN, mode \in VTRModes :
         IF ok
         THEN /\ mode = "PLAY_FWD" => polls < MaxPolls
              /\ data' = mode
              /\ polls' = polls + 1
              /\ Goto("mon_decide")
         ELSE /\ Raise("TransportError")
              /\ UNCHANGED <<data, polls>>
    /\ UNCHANGED <<cfgVars, preVars, procVars, tearVars, interrupted>>

\* 168-177: terminate ffmpeg when the VCR no longer plays, else print the
\* counter and loop
MonDecide ==
    /\ pc = "mon_decide"
    /\ IF StillPlaying(data)
       THEN /\ Goto("mon_check")
            /\ UNCHANGED <<log, ffVars>>
       ELSE TerminateFfmpeg("mon_break")
    /\ UNCHANGED <<cfgVars, preVars, vbiVars, tearVars, monVars>>

\* 173: break
MonBreak ==
    /\ pc = "mon_break"
    /\ Goto("wait_ffmpeg")
    /\ UNCHANGED <<cfgVars, preVars, log, procVars, tearVars, monVars>>

\* 178: Ctrl-C while the try block runs
KeyboardInterrupt ==
    /\ pc \in MonitorPcs
    /\ interrupted' = TRUE
    /\ Goto("kbint")
    /\ UNCHANGED <<cfgVars, preVars, log, procVars, tearVars, data, polls>>

InterruptHandler_alsoVbi ==
    /\ pc = "kbint"
    /\ log' = IF vbi_proc = "none"
              THEN Append(log, "terminate_ffmpeg")
              ELSE log \o <<"terminate_ffmpeg", "terminate_vbi">>
    /\ ffmpeg_signalled' = (ffmpeg_signalled \/ ffmpeg_proc = "running")
    /\ vbi_signalled' = (vbi_signalled \/ vbi_proc = "running")
    /\ Goto("wait_ffmpeg")
    /\ UNCHANGED <<cfgVars, preVars, ffmpeg_proc, ffmpeg_status,
                   ffmpeg_reaped, ffmpeg_closed, vbi_proc, vbi_status,
                   vbi_closed,
                   tearVars, monVars>>

\* 179-180
InterruptHandler ==
    /\ pc = "kbint"
    /\ TerminateFfmpeg("wait_ffmpeg")
    /\ UNCHANGED <<cfgVars, preVars, vbiVars, tearVars, monVars>>

----------------------------------------------------------------------------
(* Teardown, lines 181-201 *)

\* 182-183: await ffmpeg_proc.wait()
WaitFfmpeg ==
    /\ pc = "wait_ffmpeg"
    /\ ffmpeg_proc = "exited"
    /\ Emit("wait_ffmpeg")
    /\ ffmpeg_proc_return' = ffmpeg_status
    /\ ffmpeg_reaped' = TRUE
    /\ Goto("classify")
    /\ UNCHANGED <<cfgVars, preVars, ffmpeg_proc, ffmpeg_status,
                   ffmpeg_signalled, ffmpeg_closed, vbiVars, vbi_proc_return,
                   vbi_warned,
                   ret, monVars>>

\* 185-189 (and 201 when there is no zvbi2raw)
Classify ==
    /\ pc = "classify"
    /\ IF SessionResult(ffmpeg_proc_return) # 0
       THEN ret' = 1 /\ Goto("restore")
       ELSE IF vbi_proc # "none"
       THEN UNCHANGED ret /\ Goto("vbi_terminate")
       ELSE ret' = 0 /\ Goto("restore")
    /\ UNCHANGED <<cfgVars, preVars, log, procVars, ffmpeg_proc_return,
                   vbi_proc_return, vbi_warned, monVars>>

\* 190-192, 194-195: vbi_proc.terminate() raises ProcessLookupError once
\* the transport is closed
VbiTerminate ==
    /\ pc = "vbi_terminate"
    /\ Emit("terminate_vbi")
    /\ IF vbi_closed
       THEN Goto("vbi_report") /\ UNCHANGED vbi_signalled
       ELSE /\ vbi_signalled' = (vbi_signalled \/ vbi_proc = "running")
            /\ Goto("vbi_wait")
    /\ UNCHANGED <<cfgVars, preVars, ffVars, vbi_proc, vbi_status,
                   vbi_closed, tearVars, monVars>>

\* 193: vbi_proc_return = await vbi_proc.wait()
VbiWait ==
    /\ pc = "vbi_wait"
    /\ vbi_proc = "exited"
    /\ Emit("wait_vbi")
    /\ vbi_proc_return' = vbi_status
    /\ Goto("vbi_report")
    /\ UNCHANGED <<cfgVars, preVars, procVars, ffmpeg_proc_return,
                   vbi_warned, ret, monVars>>

VbiReport_failOnWarn ==
    /\ pc = "vbi_report"
    /\ LET returncode == IF vbi_proc_return \notin {None, 0}
                         THEN vbi_proc_return ELSE vbi_status
       IN  /\ vbi_warned' = (returncode # 0)
           /\ ret' = IF returncode # 0 THEN 1 ELSE 0
    /\ Goto("restore")
    /\ UNCHANGED <<cfgVars, preVars, log, procVars, ffmpeg_proc_return,
                   vbi_proc_return, monVars>>

\* 196-201: `vbi_proc_return or vbi_proc.returncode`, then return 0
VbiReport ==
    /\ pc = "vbi_report"
    /\ LET returncode == IF vbi_proc_return \notin {None, 0}
                         THEN vbi_proc_return ELSE vbi_status
       IN  vbi_warned' = (returncode # 0)
    /\ ret' = 0
    /\ Goto("restore")
    /\ UNCHANGED <<cfgVars, preVars, log, procVars, ffmpeg_proc_return,
                   vbi_proc_return, monVars>>

----------------------------------------------------------------------------
(* main(), lines 239-247 *)

RestoreProfile_skipped ==
    /\ pc = "restore"
    /\ Goto("final_rewind")
    /\ UNCHANGED <<cfgVars, preVars, log, procVars, tearVars, monVars>>

\* 243-244: wpctl set-profile <id> 1, check=True
RestoreProfile ==
    /\ pc = "restore"
    /\ Emit("profile_on")
    /\ \E ok \in BOOLEAN :
         IF ok THEN Goto("final_rewind") ELSE Raise("CalledProcessError")
    /\ UNCHANGED <<cfgVars, preVars, procVars, tearVars, monVars>>

\* 245-246
FinalRewind ==
    /\ pc = "final_rewind"
    /\ Emit("rewind_wait")
    /\ \E ok \in BOOLEAN :
         IF ok THEN Goto("exit") ELSE Raise("TransportError")
    /\ UNCHANGED <<cfgVars, preVars, procVars, tearVars, monVars>>

\* 247: sys.exit(ret)
SysExit ==
    /\ pc = "exit"
    /\ pc' = "ended"
    /\ exit_code' = ret
    /\ UNCHANGED <<cfgVars, preVars, log, procVars, tearVars, monVars, raised>>

----------------------------------------------------------------------------
(* Environment *)

\* ffmpeg exits: its -t bound (line 115), an error, or the SIGTERM
FfmpegExit ==
    /\ ffmpeg_proc = "running"
    /\ ffmpeg_proc' = "exited"
    /\ \E status \in ExitCodes : ffmpeg_status' = status
    /\ UNCHANGED <<pc, cfgVars, preVars, log, ffmpeg_reaped, ffmpeg_signalled,
                   ffmpeg_closed,
                   vbiVars, tearVars, monVars, raised, exit_code>>

\* the child watcher of asyncio reaps the zombie, the pid disappears
ChildReap ==
    /\ ffmpeg_proc = "exited"
    /\ ~ffmpeg_reaped
    /\ pc # "ended"
    /\ ffmpeg_reaped' = TRUE
    /\ UNCHANGED <<pc, cfgVars, preVars, log, ffmpeg_proc, ffmpeg_status,
                   ffmpeg_signalled, ffmpeg_closed, vbiVars, tearVars,
                   monVars, raised, exit_code>>

\* statements at which the coroutine awaits, so that the event loop runs
AwaitPcs == {"spawn_vbi", "settle", "input", "input_settle", "cue_settle",
             "wait_ffmpeg", "vbi_wait"}

\* while the coroutine awaits, the event loop learns of the exit of ffmpeg,
\* reaps it and closes its transport
FfmpegClose ==
    /\ ffmpeg_proc = "exited"
    /\ ~ffmpeg_closed
    /\ pc \in AwaitPcs
    /\ ffmpeg_closed' = TRUE
    /\ ffmpeg_reaped' = TRUE
    /\ UNCHANGED <<pc, cfgVars, preVars, log, ffmpeg_proc, ffmpeg_status,
                   ffmpeg_signalled, vbiVars, tearVars, monVars, raised,
                   exit_code>>

\* zvbi2raw exits
VbiExit ==
    /\ vbi_proc = "running"
    /\ vbi_proc' = "exited"
    /\ \E status \in ExitCodes : vbi_status' = status
    /\ UNCHANGED <<pc, cfgVars, preVars, log, ffVars, vbi_closed,
                   vbi_signalled, tearVars, monVars, raised, exit_code>>

\* the event loop learns of the exit of zvbi2raw and closes its transport
VbiClose ==
    /\ vbi_proc = "exited"
    /\ ~vbi_closed
    /\ pc # "ended"
    /\ vbi_closed' = TRUE
    /\ UNCHANGED <<pc, cfgVars, preVars, log, ffVars, vbi_proc, vbi_status,
                   vbi_signalled, tearVars, monVars, raised, exit_code>>

----------------------------------------------------------------------------
Next ==
    \/ ParseTimespan \/ FindNode \/ ProfileOff \/ ProbeAudio \/ TurnOn
    \/ CheckTape \/ RewindWait
    \/ SpawnFfmpeg \/ RemoveVbi \/ SpawnVbi \/ Settle \/ InputSelect
    \/ InputSettle \/ ResetCounter \/ CueSettle \/ Play \/ QueryFramerate
    \/ MonCheck \/ MonSample \/ MonDecide \/ MonBreak
    \/ KeyboardInterrupt \/ InterruptHandler
    \/ WaitFfmpeg \/ Classify \/ VbiTerminate \/ VbiWait \/ VbiReport
    \/ RestoreProfile \/ FinalRewind \/ SysExit
    \/ FfmpegExit \/ ChildReap \/ FfmpegClose \/ VbiExit \/ VbiClose

Spec == Init /\ [][Next]_vars

TypeOK ==
    /\ ffmpeg_proc \in {"none", "running", "exited"}
    /\ vbi_proc \in {"none", "running", "exited"}
    /\ ffmpeg_status \in ExitCodes \cup {None}
    /\ ret \in {None, 0, 1}
    /\ data \in VTRModes \cup {"none"}
    /\ polls \in 0..(MaxPolls + 1)

----------------------------------------------------------------------------
(* Properties *)

\* the last sample of the monitor loop did not read PLAY_FWD
StopSeen == polls > 0 /\ data # "PLAY_FWD"

\* positions of main() after asyncio.run(_a_main(...)) has returned
TornDownPcs == {"restore", "final_rewind", "exit", "ended"}

\* C1: once ffmpeg's exit status has been observed and _a_main has returned,
\* the returned result is 0 exactly when the status is 0 or 255 and 1
\* otherwise, whatever ended the monitor loop and whatever the last sample
\* was; sys.exit passes that result on, and a failed recording never ends
\* in exit status 0.
C1_ResultFollowsStatus ==
    /\ (ffmpeg_proc_return # None /\ pc \in TornDownPcs)
          => /\ ffmpeg_proc_return \in CleanCodes => ret = 0
             /\ ffmpeg_proc_return \notin CleanCodes => ret = 1
    /\ ret # None => ffmpeg_proc_return # None
    /\ (pc = "ended" /\ raised = "none") => exit_code = ret
    /\ (pc = "ended" /\ ffmpeg_proc_return # None
          /\ ffmpeg_proc_return \notin CleanCodes) => exit_code # 0

C1_Witness ==
    /\ pc = "ended"
    /\ interrupted
    /\ data = "PLAY_FWD"
    /\ ffmpeg_proc_return = 255
    /\ exit_code = 0

\* C2: after a loop sample that is not PLAY_FWD the loop terminates ffmpeg
\* before it does anything else, never starts another iteration, takes no
\* further sample, and play is issued at most once in a session.
C2_StopSampleTerminates ==
    /\ [](StopSeen => pc \notin {"mon_check", "mon_sample"})
    /\ []((StopSeen /\ pc \notin {"mon_decide", "kbint"})
            => Issued("terminate_ffmpeg"))
    /\ [](Count("play") <= 1)
    /\ [][StopSeen => /\ polls' = polls
                       /\ \A i \in (Len(log) + 1)..Len(log') :
                              log'[i] \notin {"poll", "play"}]_vars

C2_Witness ==
    /\ StopSeen
    /\ pc = "mon_break"
    /\ ffmpeg_signalled
    /\ log[Len(log)] = "terminate_ffmpeg"
    /\ Count("play") = 1

\* C3: when _a_main returns after an interrupt in the monitor loop, ffmpeg
\* has been awaited exactly once and, when zvbi2raw was started, its
\* termination has been requested (full teardown).
C3_InterruptFullTeardown ==
    (interrupted /\ pc \in TornDownPcs /\ ret # None)
      => /\ Count("wait_ffmpeg") = 1
         /\ vbi_proc # "none" => Issued("terminate_vbi")

\* C4: once ffmpeg has been awaited and _a_main has returned, a started
\* zvbi2raw has been asked to terminate, whatever ffmpeg's status was.
C4_AncillaryAlwaysTornDown ==
    (vbi_proc # "none" /\ ffmpeg_proc_return # None /\ pc \in TornDownPcs)
      => Issued("terminate_vbi")

\* C5: a session that ends on a failed sample of the monitor loop has
\* requested the termination of ffmpeg.
C5_PollFailureTerminates ==
    (pc = "ended" /\ raised = "TransportError" /\ log # <<>>
       /\ log[Len(log)] = "poll")
      => Issued("terminate_ffmpeg")

\* C6: when v4l2-ctl exits non-zero the VCR is never cued, the loop never
\* samples, and the running ffmpeg is terminated or awaited before the
\* session ends.
C6_InputFailureTearsDown ==
    raised = "Abort:input"
      => /\ ~Issued("reset_counter")
         /\ ~Issued("play")
         /\ ~Issued("poll")
         /\ Issued("terminate_ffmpeg") \/ Issued("wait_ffmpeg")

\* C7: when zvbi2raw was configured and could not be started, the session
\* still runs to the teardown of ffmpeg and its result follows ffmpeg's
\* status.
C7_VbiLaunchFailureNonFatal ==
    (pc = "ended" /\ vbi_device /\ Issued("exec_zvbi2raw")
       /\ vbi_proc = "none")
      => /\ Issued("play")
         /\ Issued("wait_ffmpeg") => ret # None

\* C8: when the timespan does not parse, the session ends with a non-zero
\* status straight after line 216: no command of any kind has been issued
\* and no process exists.
C8_InvalidTimespanAbortsFirst ==
    (pc # "parse" /\ Timeparse(TimespanOrDefault(timespan)) = None)
      => /\ pc = "ended"
         /\ exit_code # 0
         /\ log = <<>>
         /\ ffmpeg_proc = "none"
         /\ vbi_proc = "none"

C8_Witness ==
    /\ pc = "ended"
    /\ timespan = "bogus"
    /\ raised = "Abort:timespan"
    /\ exit_code = 1

\* C9: when the VCR reports no tape, the session ends with a non-zero
\* status and nothing of the launch or the cue has happened: no ffmpeg,
\* no zvbi2raw, no removal of the .vbi file, no rewind, reset or play.
C9_NoTapeAbortsBeforeLaunch ==
    tape_inserted = "no"
      => /\ pc = "ended"
         /\ exit_code # 0
         /\ ffmpeg_proc = "none"
         /\ vbi_proc = "none"
         /\ \A e \in {"exec_ffmpeg", "exec_zvbi2raw", "remove_vbi",
                       "rewind_wait", "reset_counter", "play"} : ~Issued(e)

C9_Witness ==
    /\ tape_inserted = "no"
    /\ pc = "ended"
    /\ raised = "Abort:tape"
    /\ log[Len(log)] = "get_vtr_mode"
    /\ Issued("turn_on")

\* C10: every terminate or wait on zvbi2raw comes after the wait on
\* ffmpeg has returned.
C10_PrimaryAwaitedFirst ==
    /\ Before("wait_ffmpeg", "terminate_vbi")
    /\ Before("wait_ffmpeg", "wait_vbi")
    /\ (Issued("terminate_vbi") \/ Issued("wait_vbi") \/ vbi_signalled)
         => ffmpeg_proc_return # None

C10_Witness ==
    /\ Issued("terminate_vbi")
    /\ Issued("wait_vbi")
    /\ vbi_signalled
    /\ ffmpeg_proc_return # None

\* the monitor loop has been entered: the framerate query of line 163,
\* the second mode query of the session, has returned
MonitorEntered ==
    /\ Count("get_vtr_mode") = 2
    /\ ~(pc = "ended" /\ raised = "TransportError"
          /\ log[Len(log)] = "get_vtr_mode")

\* C11: play is issued right after a settle delay that follows the reset of
\* the counter, and every sample of the monitor loop comes after play; the
\* loop is only entered once play has returned.
C11_CueBeforeSampling ==
    /\ \A j \in DOMAIN log :
         log[j] = "play"
           => j > 2 /\ log[j - 1] = "sleep" /\ log[j - 2] = "reset_counter"
    /\ Before("play", "poll")
    /\ (pc \in MonitorPcs \/ polls > 0)
          => Issued("play") /\ log[Len(log)] # "play"

C11_Witness ==
    /\ pc = "mon_decide"
    /\ polls = 1
    /\ Issued("reset_counter")
    /\ Issued("play")
    /\ log[Len(log)] = "poll"

\* C12: a loop test that finds the pid gone leaves the loop for the wait on
\* ffmpeg without a sample and without a command; a sample is only taken
\* after a loop test that found the pid, and terminate is only ever called
\* after a sample or in the interrupt handler.
C12_DeadProcessExitsLoop ==
    /\ [][(pc = "mon_check" /\ ~PidExists /\ pc' \notin {"mon_check", "kbint"})
            => (pc' = "wait_ffmpeg" /\ log' = log /\ polls' = polls)]_vars
    /\ [][(pc' = "mon_sample" /\ pc # "mon_sample")
            => (pc = "mon_check" /\ PidExists)]_vars
    /\ [][polls' # polls => pc = "mon_sample"]_vars
    /\ [][(Len(log') > Len(log) /\ log'[Len(log')] = "terminate_ffmpeg")
            => pc \in {"mon_decide", "kbint"}]_vars

C12_Witness ==
    /\ pc = "wait_ffmpeg"
    /\ ffmpeg_proc = "exited"
    /\ ffmpeg_reaped
    /\ polls > 0
    /\ data = "PLAY_FWD"
    /\ ~Issued("terminate_ffmpeg")

\* C13: no terminate request ends the session with ProcessLookupError, and
\* a session that has asked zvbi2raw to terminate returns 0.
C13_TerminateNeverDerails ==
    /\ raised # "ProcessLookupError"
    /\ (pc \in TornDownPcs /\ Issued("terminate_vbi")) => ret = 0

\* C14: a session that entered the monitor loop does not end without
\* having awaited ffmpeg.
C14_MonitorReachesTeardown ==
    (MonitorEntered /\ pc = "ended") => Issued("wait_ffmpeg")

\* commands sent to the VCR
TransportCommands ==
    {"turn_on", "get_vtr_mode", "rewind_wait", "reset_counter", "play", "poll"}

\* C15: with an ffmpeg status of 0 or 255 and a zvbi2raw that was started,
\* _a_main returns 0 after asking zvbi2raw to terminate, whatever the
\* status of zvbi2raw and whether or not it was observed; sys.exit then
\* exits 0.
C15_AncillaryNeverChangesResult ==
    /\ (pc \in TornDownPcs /\ vbi_proc # "none"
          /\ ffmpeg_proc_return \in CleanCodes)
          => ret = 0 /\ Issued("terminate_vbi")
    /\ (pc = "ended" /\ raised = "none" /\ vbi_proc # "none"
          /\ ffmpeg_proc_return \in CleanCodes) => exit_code = 0
    /\ vbi_warned => ret = 0

C15_Witness ==
    /\ pc = "ended"
    /\ exit_code = 0
    /\ vbi_warned
    /\ vbi_status = 1
    /\ vbi_proc_return = None
    /\ ffmpeg_proc_return = 255

\* C16: when the probe reports the audio device busy, the session ends
\* with a non-zero status, no ffmpeg or zvbi2raw exists and no command has
\* been sent to the VCR.
C16_AudioBusyAborts ==
    audio_available = "no"
      => /\ pc = "ended"
         /\ exit_code # 0
         /\ ffmpeg_proc = "none"
         /\ vbi_proc = "none"
         /\ \A e \in TransportCommands \cup {"exec_ffmpeg", "exec_zvbi2raw"} :
              ~Issued(e)

C16_Witness ==
    /\ audio_available = "no"
    /\ pc = "ended"
    /\ raised = "Abort:audio"
    /\ log[Len(log)] = "probe_audio"
    /\ Issued("profile_off")

\* C17: when ffmpeg could not be started, the session ends with a non-zero
\* status and zvbi2raw was not started, the .vbi file not removed, v4l2-ctl
\* not run and the VCR neither reset nor played nor sampled.
C17_PrimaryLaunchFailureAborts ==
    (Issued("exec_ffmpeg") /\ ffmpeg_proc = "none")
      => /\ pc = "ended"
         /\ exit_code # 0
         /\ vbi_proc = "none"
         /\ \A e \in {"exec_zvbi2raw", "remove_vbi", "exec_v4l2_ctl",
                       "reset_counter", "play", "poll"} : ~Issued(e)

C17_Witness ==
    /\ pc = "ended"
    /\ vbi_device
    /\ raised = "SpawnError:ffmpeg"
    /\ log[Len(log)] = "exec_ffmpeg"
    /\ ffmpeg_proc = "none"

\* C18: once reset_counter or play has been issued, ffmpeg has been started
\* and v4l2-ctl has exited with 0, both before the reset; ffmpeg and
\* zvbi2raw are each started at most once.
C18_CueAfterLaunchAndInput ==
    /\ (Issued("reset_counter") \/ Issued("play"))
          => /\ input_returncode = 0
             /\ ffmpeg_proc # "none"
             /\ Before("exec_ffmpeg", "reset_counter")
             /\ Before("exec_v4l2_ctl", "reset_counter")
             /\ Before("reset_counter", "play")
    /\ Count("exec_ffmpeg") <= 1
    /\ Count("exec_zvbi2raw") <= 1

C18_Witness ==
    /\ Issued("play")
    /\ input_returncode = 0
    /\ ffmpeg_proc = "running"
    /\ vbi_proc = "running"
    /\ Count("exec_ffmpeg") = 1
    /\ Count("exec_zvbi2raw") = 1

\* C19: once _a_main has returned, the next command is the restore of the
\* profile, the final rewind comes right after it, and sys.exit hands on
\* the returned result after both; the profile is set to Off before the
\* audio probe and before any command to the VCR, and the first rewind
\* comes before ffmpeg is started.
C19_RestoreThenRewindThenExit ==
    /\ (ret # None /\ pc # "restore")
          => /\ Issued("profile_on")
             /\ Before("wait_ffmpeg", "profile_on")
    /\ Issued("profile_on") => ret # None
    /\ Count("profile_on") <= 1
    /\ (Count("rewind_wait") = 2 \/ pc = "exit")
          => /\ Len(log) >= 2
             /\ log[Len(log)] = "rewind_wait"
             /\ log[Len(log) - 1] = "profile_on"
    /\ (pc = "ended" /\ raised = "none")
          => /\ ret # None
             /\ exit_code = ret
             /\ Count("rewind_wait") = 2
    /\ Before("profile_off", "probe_audio")
    /\ \A e \in TransportCommands : Before("profile_off", e)
    /\ Before("rewind_wait", "exec_ffmpeg")

C19_Witness ==
    /\ pc = "ended"
    /\ raised = "none"
    /\ exit_code = 1
    /\ ret = 1
    /\ log[Len(log)] = "rewind_wait"

====
